---- MODULE Spec2Model ----
(***************************************************************************)
(* SignSimple.io certificate module: the hash-chained audit ledger         *)
(* (audit-events.js), the consent flow (consent-flow.js), the hash         *)
(* utilities (hash-utils.js), the client address capture (ip-capture.js)   *)
(* and the certificate builder (generate-certificate.js), over the tables  *)
(* of the audit-trail schema.                                              *)
(*                                                                         *)
(* Strings produced by JSON.stringify and the digests computed from them   *)
(* are sequences of tokens.  A JSON object is a function from paths (a     *)
(* path is the sequence of keys leading to a leaf) to leaves (a leaf is    *)
(* the token sequence of a scalar).                                        *)
(***************************************************************************)
EXTENDS Integers, Sequences, FiniteSets, TLC

\* ---------------------------------------------------------------- bounds
MaxOps == 3
MaxTime == 1
NumProcs == 2

\* ------------------------------------------------------------ the universe
Procs == 1..NumProcs
Docs == {"d1", "d2"}
MissingDoc == "d0"
Signers == {"s1"}
MissingSigner == "s0"
Null == "null"
NoTime == -1

\* The signers rows' document_id and email columns, which no operation writes.
SignerDoc(s) == "d1"
SignerEmail(s) == "alice@example.com"

EVENT_TYPES == {
  "document.created", "document.uploaded", "document.sent", "document.viewed",
  "document.downloaded", "document.completed", "document.voided", "document.expired",
  "email.sent", "email.delivered", "email.opened", "email.bounced",
  "signer.added", "signer.removed", "signer.reminded",
  "consent.given", "consent.withdrawn",
  "signature.started", "signature.completed", "signature.declined",
  "certificate.generated", "certificate.downloaded",
  "verification.success", "verification.failed" }

ACTOR_TYPES == {"user", "signer", "system"}

\* ------------------------------------------------------------ JSON values
Quote(s) == <<"\"", s, "\"">>
Scalar(x) == IF x = Null THEN <<"null">> ELSE Quote(x)
Num(n) == <<ToString(n)>>
Time(t) == IF t = NoTime THEN <<"null">> ELSE Quote(ToString(t))
EmptyObject == <<>>

\* An object placed under a key of another object.
Nest(key, obj) == [p \in {<<key>> \o q : q \in DOMAIN obj} |-> obj[Tail(p)]]

\* Lexicographic order of every key that occurs in the model (Array.sort).
KeyOrder == <<
  "0", "1", "2", "3", "4", "5", "6", "7",
  "actor", "actor_email", "actor_id", "actor_type", "audit_trail",
  "certificate", "certificate_hash", "certificate_id", "completed_at",
  "consent", "consent_version", "consents", "description", "disclosure_hash",
  "document", "document_id", "email", "esign_disclosure", "event_data",
  "event_timestamp", "event_type", "fields_signed", "final_hash",
  "generated_at", "given", "hardware_software", "hash", "id", "ip",
  "ip_address", "name", "original_consent_timestamp", "original_hash",
  "page", "paper_copy_rights", "position", "previous_hash", "role",
  "signature", "signature_hash", "signature_type", "signer_id", "signers",
  "status", "time_spent_seconds", "timestamp", "title", "type", "user_agent",
  "verification_url", "x" >>

SortKeys(S) == SelectSeq(KeyOrder, LAMBDA k : k \in S)
TopKeys(obj) == {p[1] : p \in DOMAIN obj}

\* The object (or leaf) stored under a key of an object.
Member(obj, key) ==
  [q \in {Tail(p) : p \in {r \in DOMAIN obj : r[1] = key}} |-> obj[<<key>> \o q]]

IsLeaf(member) == DOMAIN member = {<<>>} /\ member[<<>>] # EmptyObject

\* JSON.stringify(value, replacerArray): at every depth only the properties
\* named in the array are written, in the array's order.
RECURSIVE SerObject(_, _), SerMembers(_, _, _, _)
SerObject(obj, replacer) ==
  LET present == TopKeys(obj)
      order == SelectSeq(replacer, LAMBDA k : k \in present)
  IN  <<"{">> \o SerMembers(obj, replacer, order, 1) \o <<"}">>

SerMembers(obj, replacer, order, i) ==
  IF i > Len(order) THEN <<>>
  ELSE LET member == Member(obj, order[i])
       IN  (IF i = 1 THEN <<>> ELSE <<",">>)
           \o <<order[i], ":">>
           \o (IF IsLeaf(member) THEN member[<<>>]
               ELSE SerObject([q \in DOMAIN member \ {<<>>} |-> member[q]], replacer))
           \o SerMembers(obj, replacer, order, i + 1)

Stringify(obj, replacer) == SerObject(obj, replacer)

\* ------------------------------------------------------------- hash-utils
sha256(data) == <<"sha256(">> \o data \o <<")">>

GENESIS == <<"GENESIS">>
NoHash == <<>>

\* previousEvent?.current_hash || 'GENESIS'
PreviousHashOf(previousEvent) ==
  IF previousEvent.present /\ previousEvent.current_hash # NoHash
  THEN previousEvent.current_hash ELSE GENESIS

eventForHashing(previousHash, e) ==
  (<<"previous_hash">> :> previousHash)
  @@ (<<"event_type">> :> Quote(e.event_type))
  @@ (<<"event_timestamp">> :> Time(e.event_timestamp))
  @@ (<<"document_id">> :> Quote(e.document_id))
  @@ (<<"actor_email">> :> Scalar(e.actor_email))
  @@ (<<"ip_address">> :> Scalar(e.ip_address))
  @@ (IF DOMAIN e.event_data = {}
      THEN (<<"event_data">> :> EmptyObject)
      ELSE Nest("event_data", e.event_data))

AuditHashInput(previousHash, e) ==
  LET o == eventForHashing(previousHash, e)
  IN  Stringify(o, SortKeys(TopKeys(o)))

generateAuditEventHash(previousEvent, e) ==
  LET previousHash == PreviousHashOf(previousEvent)
  IN  [previous_hash |-> previousHash,
       current_hash |-> sha256(AuditHashInput(previousHash, e))]

\* generateHashChain: the next hash of a document's signature chain.
generateHashChain(previousHash, signatureData) ==
  sha256(previousHash \o Stringify(signatureData, SortKeys(TopKeys(signatureData))))

\* ------------------------------------------------------------------ state
VARIABLES
  now,          \* the wall clock read by new Date()
  documents,    \* documents table: document id -> row
  signers,      \* signers table: signer id -> row
  auditEvents,  \* audit_events table: document id -> rows in insertion order
  certificates, \* certificates table: rows in insertion order
  storage,      \* storage service: the set of saved file paths
  nextUuid,     \* source of uuidv4()
  calls,        \* requests in flight: slot -> call frame
  last,         \* what the most recently finished call returned or threw
  ops,          \* number of calls made so far
  tampered,     \* the ledger row edited directly in the backing store, if any
  probe         \* two events handed to generateAuditEventHash, and its answers

vars == <<now, documents, signers, auditEvents, certificates, storage,
          nextUuid, calls, last, ops, tampered, probe>>

\* What no operation of the module touches.
outside == <<tampered, probe>>

NoEvent == [document_id |-> Null, signer_id |-> Null, event_type |-> Null,
            event_timestamp |-> NoTime, actor_type |-> Null, actor_id |-> Null,
            actor_email |-> Null, ip_address |-> Null, user_agent |-> Null,
            previous_hash |-> NoHash, current_hash |-> NoHash,
            event_data |-> <<>>]

NoCertData == <<>>

NoRow == [id |-> Null, document_id |-> Null, certificate_hash |-> NoHash,
          certificate_data |-> NoCertData, pdf_path |-> <<>>,
          verified_count |-> 0, last_verified_at |-> NoTime]

IdleCall == [op |-> "idle", pc |-> "idle", ev |-> NoEvent, data |-> NoCertData,
             row |-> NoRow]

NoResult == [op |-> "none", doc |-> Null, signer |-> Null, result |-> "none",
             existing |-> Null, id |-> Null, hash |-> NoHash]

Busy(p) == calls[p].op # "idle"

\* A new request takes the first free slot.
FreeSlot(p) == ~Busy(p) /\ \A q \in Procs : q < p => Busy(q)

CanCall == ops < MaxOps

Finish(p, res) ==
  /\ calls' = [calls EXCEPT ![p] = IdleCall]
  /\ last' = res

\* ------------------------------------------------------- ip-capture.js
\* The characters of every header value and address of the model: a string
\* is looked at through its spelling, and a computed spelling is turned
\* back into the string that has it.
Spelling ==
  ("203.0.113.7" :>
     <<"2", "0", "3", ".", "0", ".", "1", "1", "3", ".", "7">>)
  @@
  ("198.51.100.9" :>
     <<"1", "9", "8", ".", "5", "1", ".", "1", "0", "0", ".", "9">>)
  @@
  ("256.1.1.1" :>
     <<"2", "5", "6", ".", "1", ".", "1", ".", "1">>)
  @@
  ("1:2:3" :>
     <<"1", ":", "2", ":", "3">>)
  @@
  ("::ffff:203.0.113.7" :>
     <<":", ":", "f", "f", "f", "f", ":", "2", "0", "3", ".", "0", ".", "1", "1", "3", ".", "7">>)
  @@
  ("2001:db8::1" :>
     <<"2", "0", "0", "1", ":", "d", "b", "8", ":", ":", "1">>)
  @@
  ("198.51.100.9, 203.0.113.7" :>
     <<"1", "9", "8", ".", "5", "1", ".", "1", "0", "0", ".", "9", ",", " ", "2", "0", "3", ".", "0", ".", "1", "1", "3", ".", "7">>)
  @@
  ("256.1.1.1, 203.0.113.7" :>
     <<"2", "5", "6", ".", "1", ".", "1", ".", "1", ",", " ", "2", "0", "3", ".", "0", ".", "1", "1", "3", ".", "7">>)
  @@
  (" , 203.0.113.7" :>
     <<" ", ",", " ", "2", "0", "3", ".", "0", ".", "1", "1", "3", ".", "7">>)

spell(text) == Spelling[text]
textOf(chars) == CHOOSE t \in DOMAIN Spelling : Spelling[t] = chars

Digits == {"0", "1", "2", "3", "4", "5", "6", "7", "8", "9"}
HexDigits == Digits \cup {"a", "b", "c", "d", "e", "f", "A", "B", "C", "D", "E", "F"}

\* String.prototype.split(separator)
RECURSIVE split(_, _)
split(chars, separator) ==
  IF \A i \in 1..Len(chars) : chars[i] # separator THEN <<chars>>
  ELSE LET k == CHOOSE i \in 1..Len(chars) :
                  /\ chars[i] = separator
                  /\ \A j \in 1..(i - 1) : chars[j] # separator
       IN  <<SubSeq(chars, 1, k - 1)>>
           \o split(SubSeq(chars, k + 1, Len(chars)), separator)

\* String.prototype.trim
RECURSIVE trim(_)
trim(chars) ==
  IF chars = <<>> THEN chars
  ELSE IF chars[1] = " " THEN trim(Tail(chars))
  ELSE IF chars[Len(chars)] = " "
  THEN trim(SubSeq(chars, 1, Len(chars) - 1))
  ELSE chars

\* ip.replace(/^::ffff:/, '')
MappedPrefix == <<":", ":", "f", "f", "f", "f", ":">>
withoutMappedPrefix(chars) ==
  IF Len(chars) >= Len(MappedPrefix)
     /\ SubSeq(chars, 1, Len(MappedPrefix)) = MappedPrefix
  THEN SubSeq(chars, Len(MappedPrefix) + 1, Len(chars))
  ELSE chars

\* (?:25[0-5]|2[0-4][0-9]|[01]?[0-9][0-9]?) against a whole segment
octetMatches(seg) ==
  \/ /\ Len(seg) = 3
     /\ \/ seg[1] = "2" /\ seg[2] = "5" /\ seg[3] \in {"0", "1", "2", "3", "4", "5"}
        \/ seg[1] = "2" /\ seg[2] \in {"0", "1", "2", "3", "4"} /\ seg[3] \in Digits
        \/ seg[1] \in {"0", "1"} /\ seg[2] \in Digits /\ seg[3] \in Digits
  \/ Len(seg) = 2 /\ seg[1] \in Digits /\ seg[2] \in Digits
  \/ Len(seg) = 1 /\ seg[1] \in Digits

\* ipv4Regex.test: four octets between dots, nothing else.
ipv4RegexTest(chars) ==
  LET parts == split(chars, ".")
  IN  Len(parts) = 4 /\ \A i \in 1..4 : octetMatches(parts[i])

\* ipv6Regex.test: /^([0-9a-fA-F]{0,4}:){2,7}[0-9a-fA-F]{0,4}$/, that is two
\* to seven colons between runs of at most four hex digits.
ipv6RegexTest(chars) ==
  LET parts == split(chars, ":")
  IN  /\ Len(parts) - 1 \in 2..7
      /\ \A i \in 1..Len(parts) :
           /\ Len(parts[i]) <= 4
           /\ \A j \in 1..Len(parts[i]) : parts[i][j] \in HexDigits

\* isValidIP
isValidIP(ip) ==
  IF ip = Null \/ ip = "" THEN FALSE
  ELSE ipv4RegexTest(withoutMappedPrefix(spell(ip))) \/ ipv6RegexTest(spell(ip))

\* normalizeIP
normalizeIP(ip) ==
  IF ip = Null \/ ip = "" THEN ip
  ELSE textOf(trim(withoutMappedPrefix(spell(ip))))

\* getFirstForwardedIP
getFirstForwardedIP(forwardedFor) ==
  IF forwardedFor = Null \/ forwardedFor = "" THEN Null
  ELSE LET first == trim(split(spell(forwardedFor), ",")[1])
       IN  IF first = <<>> THEN Null ELSE textOf(first)

\* extractIPFromAWSTrace
extractIPFromAWSTrace(traceId) == Null

\* A request without proxy headers, as Express hands it over.
NoRequest ==
  [cf_connecting_ip |-> Null, true_client_ip |-> Null, x_real_ip |-> Null,
   x_forwarded_for |-> Null, x_amzn_trace_id |-> Null,
   connection_remoteAddress |-> Null, socket_remoteAddress |-> Null,
   info_remoteAddress |-> Null, ip |-> Null, user_agent |-> Null]

\* getRealClientIP: ipSources in priority order.
ipSources(request) ==
  << request.cf_connecting_ip,
     request.true_client_ip,
     request.x_real_ip,
     getFirstForwardedIP(request.x_forwarded_for),
     IF request.x_amzn_trace_id # Null
     THEN extractIPFromAWSTrace(request.x_amzn_trace_id) ELSE Null,
     request.connection_remoteAddress,
     request.socket_remoteAddress,
     request.info_remoteAddress,
     request.ip >>

\* getRealClientIP
getRealClientIP(request) ==
  LET sources == ipSources(request)
      hits == {i \in 1..Len(sources) :
                 sources[i] # Null /\ sources[i] # "" /\ isValidIP(sources[i])}
  IN  IF hits = {} THEN Null
      ELSE normalizeIP(sources[CHOOSE i \in hits : \A j \in hits : i <= j])

\* ------------------------------------------------------------ requests
\* The requests the handlers of the ledger and the consent flow receive.
Requests ==
  { [NoRequest EXCEPT !.ip = "203.0.113.7", !.user_agent = "Mozilla/5.0"] }

\* getRealClientIP(request) of each of these requests, computed once.
ClientIPs == [request \in Requests |-> getRealClientIP(request)]

\* ------------------------------------------------------- audit-events.js
\* db.auditEvents.findLatestByDocument
\* A lookup of the newest row that does not filter by document.
findLatestOfAnyDocument(d) ==
  LET other == CHOOSE x \in Docs : x # d
      ledger == IF Len(auditEvents[other]) > 0
                THEN auditEvents[other] ELSE auditEvents[d]
  IN  IF Len(ledger) = 0
      THEN [present |-> FALSE, current_hash |-> NoHash]
      ELSE [present |-> TRUE, current_hash |-> ledger[Len(ledger)].current_hash]

findLatestByDocument(d) ==
  IF Len(auditEvents[d]) = 0
  THEN [present |-> FALSE, current_hash |-> NoHash]
  ELSE [present |-> TRUE,
        current_hash |-> auditEvents[d][Len(auditEvents[d])].current_hash]

\* A store that files the new row ahead of the rows it holds.
auditEventsPrepend(event) ==
  [auditEvents EXCEPT ![event.document_id] = <<event>> \o @]

\* A store that keeps only the newest row of a document.
auditEventsOverwrite(event) ==
  [auditEvents EXCEPT ![event.document_id] = <<event>>]

\* db.auditEvents.create
auditEventsCreate(event) ==
  [auditEvents EXCEPT ![event.document_id] = Append(@, event)]

SignatureHashes == {"sigA"}

signatureData(h) ==
  (<<"signature_type">> :> Quote("draw"))
  @@ (<<"signature_hash">> :> Quote(h))
  @@ (<<"fields_signed">> :> Num(1))
  @@ (<<"time_spent_seconds">> :> Num(30))

\* createAuditEventFromRequest
FromRequest(eventData, request) ==
  [eventData EXCEPT
     !.ip_address = IF @ # Null THEN @ ELSE ClientIPs[request],
     !.user_agent = IF @ # Null THEN @ ELSE request.user_agent]

signatureCompleted(s, h, request) ==
  FromRequest([NoEvent EXCEPT
     !.document_id = SignerDoc(s), !.signer_id = s,
     !.event_type = "signature.completed", !.actor_type = "signer",
     !.actor_id = s, !.actor_email = SignerEmail(s),
     !.event_data = signatureData(h)], request)

documentCompleted(d, finalHash) ==
  [NoEvent EXCEPT
     !.document_id = d, !.event_type = "document.completed",
     !.actor_type = "system",
     !.event_data = (<<"final_hash">> :> Quote(finalHash))
                    @@ (<<"completed_at">> :> Time(now))]

\* A caller of createAuditEvent may pass any strings.
rawEvent(d, eventType, actorType) ==
  [NoEvent EXCEPT !.document_id = d, !.event_type = eventType,
                  !.actor_type = actorType]

EventInputs ==
  {signatureCompleted(s, h, r) : s \in Signers, h \in SignatureHashes, r \in Requests}
  \cup {documentCompleted(d, "F1NAL") : d \in Docs}
  \cup {rawEvent("d1", "document.deleted", "system")}
  \cup {rawEvent("d1", "document.sent", "robot")}

\* A check of the event type that lets every type through.
acceptsAnyEventType(eventType) == TRUE

\* Object.values(EVENT_TYPES).includes(event_type)
isValidEventType(eventType) == eventType \in EVENT_TYPES

\* Object.values(ACTOR_TYPES).includes(actor_type)
isValidActorType(actorType) == actorType \in ACTOR_TYPES

\* createAuditEvent, up to the read of the chain tail: validation, timestamp,
\* findLatestByDocument and the computation of the hash pair.
CreateAuditEventCall(p, eventData) ==
  /\ CanCall /\ FreeSlot(p)
  /\ isValidEventType(eventData.event_type)
  /\ isValidActorType(eventData.actor_type)
  /\ LET e == [eventData EXCEPT !.event_timestamp = now]
         hashChain == generateAuditEventHash(findLatestByDocument(e.document_id), e)
     IN  calls' = [calls EXCEPT ![p] =
                     [IdleCall EXCEPT !.op = "createAuditEvent", !.pc = "create",
                        !.ev = [e EXCEPT !.previous_hash = hashChain.previous_hash,
                                         !.current_hash = hashChain.current_hash]]]
  /\ ops' = ops + 1
  /\ UNCHANGED outside
  /\ UNCHANGED <<now, documents, signers, auditEvents, certificates, storage,
                 nextUuid, last>>

\* createAuditEvent throwing 'Invalid event type' or 'Invalid actor type'.
CreateAuditEventInvalid(p, eventData) ==
  /\ CanCall /\ FreeSlot(p)
  /\ \/ ~isValidEventType(eventData.event_type)
     \/ ~isValidActorType(eventData.actor_type)
  /\ last' = [NoResult EXCEPT !.op = "createAuditEvent",
                !.doc = eventData.document_id,
                !.result = IF ~isValidEventType(eventData.event_type)
                           THEN "Invalid event type" ELSE "Invalid actor type"]
  /\ ops' = ops + 1
  /\ UNCHANGED outside
  /\ UNCHANGED <<now, documents, signers, auditEvents, certificates, storage,
                 nextUuid, calls>>

\* createAuditEvent, the write: db.auditEvents.create(event); return event.
CreateAuditEventWrite(p) ==
  /\ calls[p].op = "createAuditEvent" /\ calls[p].pc = "create"
  /\ auditEvents' = auditEventsCreate(calls[p].ev)
  /\ Finish(p, [NoResult EXCEPT !.op = "createAuditEvent",
                  !.doc = calls[p].ev.document_id,
                  !.signer = calls[p].ev.signer_id,
                  !.result = "ok", !.hash = calls[p].ev.current_hash])
  /\ UNCHANGED outside
  /\ UNCHANGED <<now, documents, signers, certificates, storage, nextUuid, ops>>

\* Array.sort by event_timestamp (a stable sort): insertion of each row after
\* the rows whose timestamp is not later.
RECURSIVE sortByTimestamp(_)
sortByTimestamp(rows) ==
  IF Len(rows) <= 1 THEN rows
  ELSE LET init == sortByTimestamp(SubSeq(rows, 1, Len(rows) - 1))
           x == rows[Len(rows)]
           k == Cardinality({i \in 1..Len(init) :
                               init[i].event_timestamp <= x.event_timestamp})
       IN  SubSeq(init, 1, k) \o <<x>> \o SubSeq(init, k + 1, Len(init))

\* getAuditTrail: db.auditEvents.findByDocumentId, sorted by event_timestamp.
getAuditTrail(d) == sortByTimestamp(auditEvents[d])

\* verifyAuditTrailIntegrity: the indexes (from 0) of the entries of errors,
\* in the order in which the loop pushes them.
RECURSIVE integrityErrors(_, _, _)
integrityErrors(events, i, previousHash) ==
  IF i > Len(events) THEN <<>>
  ELSE LET event == events[i]
           previousEvent ==
             IF i > 1
             THEN [present |-> TRUE, current_hash |-> events[i - 1].current_hash]
             ELSE [present |-> FALSE, current_hash |-> NoHash]
           expectedHash == generateAuditEventHash(previousEvent, event)
       IN  (IF event.previous_hash # previousHash THEN <<i - 1>> ELSE <<>>)
           \o (IF event.current_hash # expectedHash.current_hash
               THEN <<i - 1>> ELSE <<>>)
           \o integrityErrors(events, i + 1, event.current_hash)

verifyAuditTrailIntegrity(d) ==
  LET events == getAuditTrail(d)
      errors == IF Len(events) = 0 THEN <<>>
                ELSE integrityErrors(events, 1, GENESIS)
  IN  [valid |-> Len(errors) = 0, eventCount |-> Len(events), errors |-> errors]

\* getAuditTrail, verifyAuditTrailIntegrity and exportAuditTrailCSV as
\* requests: each reads the rows of db.auditEvents.findByDocumentId, sorts
\* and walks its own copy of them, and writes to no table.
ReadTrail(fn, d) ==
  /\ CanCall
  /\ ops' = ops + 1
  /\ last' = [NoResult EXCEPT
               !.op = fn, !.doc = d,
               !.result = IF fn = "verifyAuditTrailIntegrity"
                          THEN (IF verifyAuditTrailIntegrity(d).valid
                                THEN "valid" ELSE "invalid")
                          ELSE "ok"]
  /\ UNCHANGED outside
  /\ UNCHANGED <<now, documents, signers, auditEvents, certificates, storage,
                 nextUuid, calls>>

\* new Date() moves on.
Tick ==
  /\ now < MaxTime
  /\ now' = now + 1
  /\ UNCHANGED outside
  /\ UNCHANGED <<documents, signers, auditEvents, certificates, storage,
                 nextUuid, calls, last, ops>>

\* ------------------------------------------------------- consent-flow.js
DISCLOSURE_VERSION == "1.0"
DisclosureHash == sha256(<<"ESIGN_DISCLOSURE", "HARDWARE_SOFTWARE_REQUIREMENTS",
                           "PAPER_COPY_DISCLOSURE">>)

\* consentData: the three checkbox states as the caller sends them.
ConsentInputs ==
  { [esign |-> "true", requirements |-> "true", paperRights |-> "true"],
    [esign |-> "true", requirements |-> "true", paperRights |-> "undefined"],
    [esign |-> "true", requirements |-> "false", paperRights |-> "true"],
    [esign |-> "false", requirements |-> "true", paperRights |-> "true"] }

Falsy(v) == v \in {"false", "undefined", "null", "0", ""}
StrictTrue(v) == IF v = "true" THEN <<"true">> ELSE <<"false">>

\* recordConsent asking for the first acknowledgement only.
missingEsignOnly(consentData) ==
  {k \in {"esign"} : Falsy(consentData[k])}

missingConsents(consentData) ==
  {k \in {"esign", "requirements", "paperRights"} : Falsy(consentData[k])}

consents(consentData) ==
  (<<"esign_disclosure">> :> StrictTrue(consentData.esign))
  @@ (<<"hardware_software">> :> StrictTrue(consentData.requirements))
  @@ (<<"paper_copy_rights">> :> StrictTrue(consentData.paperRights))

consentGivenEvent(s, request, consentData) ==
  [NoEvent EXCEPT
     !.document_id = SignerDoc(s), !.signer_id = s,
     !.event_type = "consent.given", !.event_timestamp = now,
     !.actor_type = "signer", !.actor_id = s, !.actor_email = SignerEmail(s),
     !.ip_address = ClientIPs[request],
     !.user_agent = request.user_agent,
     !.event_data = (<<"consent_version">> :> Quote(DISCLOSURE_VERSION))
                    @@ (<<"disclosure_hash">> :> DisclosureHash)
                    @@ Nest("consents", consents(consentData))]

\* recordConsent, the path that records.
RecordConsent(s, request, consentData) ==
  /\ CanCall
  /\ missingConsents(consentData) = {}
  /\ s \in Signers
  /\ signers' = [signers EXCEPT ![s] =
                   [@ EXCEPT !.consent_given = TRUE,
                             !.consent_timestamp = now,
                             !.consent_ip_address = ClientIPs[request]]]
  /\ auditEvents' = auditEventsCreate(consentGivenEvent(s, request, consentData))
  /\ last' = [NoResult EXCEPT !.op = "recordConsent", !.signer = s,
                !.doc = SignerDoc(s), !.result = "ok"]
  /\ ops' = ops + 1
  /\ UNCHANGED outside
  /\ UNCHANGED <<now, documents, certificates, storage, nextUuid, calls>>

\* recordConsent when db.auditEvents.create throws: db.signers.update has
\* already been awaited, and the error leaves recordConsent.
RecordConsentEventFailed(s, request, consentData) ==
  /\ CanCall
  /\ missingConsents(consentData) = {}
  /\ s \in Signers
  /\ signers' = [signers EXCEPT ![s] =
                   [@ EXCEPT !.consent_given = TRUE,
                             !.consent_timestamp = now,
                             !.consent_ip_address = ClientIPs[request]]]
  /\ last' = [NoResult EXCEPT !.op = "recordConsent", !.signer = s,
                !.doc = SignerDoc(s), !.result = "db.auditEvents.create failed"]
  /\ ops' = ops + 1
  /\ UNCHANGED outside
  /\ UNCHANGED <<now, documents, auditEvents, certificates, storage, nextUuid,
                 calls>>

\* recordConsent throwing: a required consent is missing, or no such signer.
RecordConsentRejected(s, request, consentData) ==
  /\ CanCall
  /\ missingConsents(consentData) # {} \/ s \notin Signers
  /\ last' = [NoResult EXCEPT !.op = "recordConsent", !.signer = s,
                !.result = IF missingConsents(consentData) # {}
                           THEN "Missing required consents"
                           ELSE "Signer not found"]
  /\ ops' = ops + 1
  /\ UNCHANGED outside
  /\ UNCHANGED <<now, documents, signers, auditEvents, certificates, storage,
                 nextUuid, calls>>

consentWithdrawnEvent(s, request) ==
  [NoEvent EXCEPT
     !.document_id = SignerDoc(s), !.signer_id = s,
     !.event_type = "consent.withdrawn", !.event_timestamp = now,
     !.actor_type = "signer", !.actor_id = s, !.actor_email = SignerEmail(s),
     !.ip_address = ClientIPs[request],
     !.user_agent = request.user_agent,
     !.event_data = (<<"original_consent_timestamp">> :>
                       Time(signers[s].consent_timestamp))]

WithdrawConsent(s, request) ==
  /\ CanCall
  /\ s \in Signers
  /\ auditEvents' = auditEventsCreate(consentWithdrawnEvent(s, request))
  /\ signers' = [signers EXCEPT ![s] =
                   [@ EXCEPT !.status = "declined",
                             !.decline_reason = "Consent withdrawn"]]
  /\ last' = [NoResult EXCEPT !.op = "withdrawConsent", !.signer = s,
                !.doc = SignerDoc(s), !.result = "ok"]
  /\ ops' = ops + 1
  /\ UNCHANGED outside
  /\ UNCHANGED <<now, documents, certificates, storage, nextUuid, calls>>

WithdrawConsentRejected(s, request) ==
  /\ CanCall
  /\ s \notin Signers
  /\ last' = [NoResult EXCEPT !.op = "withdrawConsent", !.signer = s,
                !.result = "Signer not found"]
  /\ ops' = ops + 1
  /\ UNCHANGED outside
  /\ UNCHANGED <<now, documents, signers, auditEvents, certificates, storage,
                 nextUuid, calls>>

\* checkExistingConsent: null, or the consent columns of the signers row.
\* `returns` tells a thrown error, a null and an object apart.
checkExistingConsent(s) ==
  IF s \notin Signers
  THEN [returns |-> "throws", given |-> FALSE, timestamp |-> NoTime,
        ipAddress |-> Null]
  ELSE IF signers[s].consent_given
  THEN [returns |-> "object", given |-> TRUE,
        timestamp |-> signers[s].consent_timestamp,
        ipAddress |-> signers[s].consent_ip_address]
  ELSE [returns |-> "null", given |-> FALSE, timestamp |-> NoTime,
        ipAddress |-> Null]

\* The clock counts hours; consent older than this is flagged stale.
FreshHours == 24

\* validateConsent
validateConsent(s) ==
  IF s \notin Signers
  THEN [valid |-> FALSE, reason |-> "Signer not found", stale |-> FALSE,
        timestamp |-> NoTime]
  ELSE IF ~signers[s].consent_given
  THEN [valid |-> FALSE, reason |-> "No consent recorded", stale |-> FALSE,
        timestamp |-> NoTime]
  ELSE [valid |-> TRUE, reason |-> Null,
        stale |-> (now - signers[s].consent_timestamp) > FreshHours,
        timestamp |-> signers[s].consent_timestamp]

\* ------------------------------------- the sign endpoint (POST .../sign)
pendingRecipients(rows, d) ==
  {r \in Signers : SignerDoc(r) = d /\ rows[r].status = "pending"}

\* The recipient's last field is filled: the recipient is marked signed and,
\* when no recipient of the document is pending, the document completed.
Sign(s, request) ==
  /\ CanCall
  /\ s \in Signers
  /\ signers[s].status # "signed"
  /\ LET rows == [signers EXCEPT ![s] =
                    [@ EXCEPT !.status = "signed", !.signed_at = now]]
     IN  /\ signers' = rows
         /\ documents' =
              IF pendingRecipients(rows, SignerDoc(s)) = {}
              THEN [documents EXCEPT ![SignerDoc(s)] =
                      [@ EXCEPT !.status = "completed"]]
              ELSE documents
  /\ last' = [NoResult EXCEPT !.op = "sign", !.signer = s,
                !.doc = SignerDoc(s), !.result = "ok"]
  /\ ops' = ops + 1
  /\ UNCHANGED outside
  /\ UNCHANGED <<now, auditEvents, certificates, storage, nextUuid, calls>>

\* error(400, 'You have already signed this document')
SignRejected(s, request) ==
  /\ CanCall
  /\ s \in Signers
  /\ signers[s].status = "signed"
  /\ last' = [NoResult EXCEPT !.op = "sign", !.signer = s,
                !.doc = SignerDoc(s), !.result = "already signed"]
  /\ ops' = ops + 1
  /\ UNCHANGED outside
  /\ UNCHANGED <<now, documents, signers, auditEvents, certificates, storage,
                 nextUuid, calls>>

\* ------------------------------------------------ generate-certificate.js
Index(i) == ToString(i - 1)

\* An array of objects: element i under the key i-1.
RECURSIVE ArrayOf(_, _)
ArrayOf(key, elements) ==
  IF Len(elements) = 0 THEN <<>>
  ELSE ArrayOf(key, SubSeq(elements, 1, Len(elements) - 1))
       @@ Nest(key, Nest(Index(Len(elements)), elements[Len(elements)]))

\* formatEventDescription
formatEventDescription(event) ==
  <<"\"", event.event_type>>
  \o (IF event.ip_address # Null THEN <<"(", event.ip_address, ")">> ELSE <<>>)
  \o <<"\"">>

formattedEvent(event) ==
  (<<"timestamp">> :> Time(event.event_timestamp))
  @@ (<<"type">> :> Quote(event.event_type))
  @@ (<<"actor">> :> Scalar(event.actor_email))
  @@ (<<"ip">> :> Scalar(event.ip_address))
  @@ (<<"description">> :> formatEventDescription(event))

signersByDocumentId(d) ==
  SelectSeq(<<"s1">>, LAMBDA s : SignerDoc(s) = d)

signerEntry(s) ==
  (<<"name">> :> Quote(s))
  @@ (<<"email">> :> Quote(SignerEmail(s)))
  @@ (<<"role">> :> Quote("signer"))
  @@ (<<"status">> :> Quote(signers[s].status))
  @@ (<<"consent", "given">> :>
        (IF signers[s].consent_given THEN <<"true">> ELSE <<"false">>))
  @@ (<<"consent", "timestamp">> :> Time(signers[s].consent_timestamp))
  @@ (<<"consent", "ip_address">> :> Scalar(signers[s].consent_ip_address))
  @@ (<<"signature", "timestamp">> :> Time(signers[s].signed_at))

\* generateCertificateHash: the hash field is left out and the keys are
\* sorted at every depth.
generateCertificateHash(certificateData) ==
  LET dataForHashing ==
        [q \in DOMAIN certificateData \ {<<"certificate", "hash">>}
           |-> certificateData[q]]
  IN  sha256(Stringify(dataForHashing, KeyOrder))

\* certificateData as gatherCertificateData builds it from the rows it read.
certificateDataFrom(d, certificateId, status, ledger) ==
  LET events == sortByTimestamp(ledger)
      rows == signersByDocumentId(d)
      body ==
        (<<"certificate", "id">> :> Quote(certificateId))
        @@ (<<"certificate", "generated_at">> :> Time(now))
        @@ (<<"certificate", "verification_url">> :>
              <<"\"", "https://signsimple.io/verify/", d, "\"">>)
        @@ (<<"document", "id">> :> Quote(d))
        @@ (<<"document", "title">> :> Quote("Agreement"))
        @@ (<<"document", "status">> :> Quote(status))
        @@ (<<"document", "original_hash">> :> Quote("0R1G"))
        @@ (<<"document", "final_hash">> :> <<"null">>)
        @@ ArrayOf("signers", [i \in 1..Len(rows) |-> signerEntry(rows[i])])
        @@ (IF Len(events) = 0 THEN (<<"audit_trail">> :> EmptyObject)
            ELSE ArrayOf("audit_trail",
                         [i \in 1..Len(events) |-> formattedEvent(events[i])]))
  IN  body @@ (<<"certificate", "hash">> :> generateCertificateHash(body))

certificateDataOf(d, certificateId) ==
  certificateDataFrom(d, certificateId, documents[d].status, auditEvents[d])

uuidv4 == ToString(nextUuid)

\* gatherCertificateData with the check of the document's status left out.
gatherWithoutStatusCheck(d) ==
  IF d \notin Docs THEN [error |-> "Document not found", data |-> NoCertData]
  ELSE [error |-> "none", data |-> certificateDataOf(d, uuidv4)]

\* gatherCertificateData: the reads, the two checks and the snapshot.
gatherCertificateData(d) ==
  IF d \notin Docs THEN [error |-> "Document not found", data |-> NoCertData]
  ELSE IF documents[d].status # "completed"
  THEN [error |-> "Document not completed", data |-> NoCertData]
  ELSE [error |-> "none", data |-> certificateDataOf(d, uuidv4)]

unquote(leaf) == leaf[2]
certificateIdOf(data) == unquote(data[<<"certificate", "id">>])
documentIdOf(data) == unquote(data[<<"document", "id">>])
pdfPathOf(data) ==
  <<"certificates", documentIdOf(data), "certificate", certificateIdOf(data)>>

\* createAndSaveCertificate, the call and gatherCertificateData succeeding.
CertificateGather(p, d) ==
  /\ CanCall /\ FreeSlot(p)
  /\ LET gathered == gatherCertificateData(d)
     IN  /\ gathered.error = "none"
         /\ calls' = [calls EXCEPT ![p] =
                       [IdleCall EXCEPT !.op = "createAndSaveCertificate",
                          !.pc = "save", !.data = gathered.data]]
  /\ nextUuid' = nextUuid + 1
  /\ ops' = ops + 1
  /\ UNCHANGED outside
  /\ UNCHANGED <<now, documents, signers, auditEvents, certificates, storage, last>>

\* createAndSaveCertificate with gatherCertificateData throwing.
CertificateGatherRejected(p, d) ==
  /\ CanCall /\ FreeSlot(p)
  /\ gatherCertificateData(d).error # "none"
  /\ last' = [NoResult EXCEPT !.op = "createAndSaveCertificate", !.doc = d,
                !.result = gatherCertificateData(d).error]
  /\ ops' = ops + 1
  /\ UNCHANGED outside
  /\ UNCHANGED <<now, documents, signers, auditEvents, certificates, storage,
                 nextUuid, calls>>

\* generateCertificatePDF and storage.save.
CertificateSave(p) ==
  /\ calls[p].op = "createAndSaveCertificate" /\ calls[p].pc = "save"
  /\ storage' = storage \cup {pdfPathOf(calls[p].data)}
  /\ calls' = [calls EXCEPT ![p].pc = "persist"]
  /\ UNCHANGED outside
  /\ UNCHANGED <<now, documents, signers, auditEvents, certificates, nextUuid,
                 last, ops>>

certificateRow(data) ==
  [id |-> certificateIdOf(data),
   document_id |-> documentIdOf(data),
   certificate_hash |-> data[<<"certificate", "hash">>],
   certificate_data |-> data,
   pdf_path |-> pdfPathOf(data),
   verified_count |-> 0,
   last_verified_at |-> NoTime]

\* The certificates table with its unique constraint dropped.
certificates_without_constraint(row) == TRUE

\* CONSTRAINT certificates_unique_document UNIQUE (document_id)
certificates_unique_document(row) ==
  \A i \in 1..Len(certificates) : certificates[i].document_id # row.document_id

certificateGeneratedEvent(data) ==
  [NoEvent EXCEPT
     !.document_id = documentIdOf(data),
     !.event_type = "certificate.generated", !.event_timestamp = now,
     !.actor_type = "system",
     !.event_data = (<<"certificate_id">> :> data[<<"certificate", "id">>])
                    @@ (<<"certificate_hash">> :> data[<<"certificate", "hash">>])]

\* db.certificates.create, db.auditEvents.create, db.documents.update, return.
CertificatePersist(p) ==
  /\ calls[p].op = "createAndSaveCertificate" /\ calls[p].pc = "persist"
  /\ certificates_unique_document(certificateRow(calls[p].data))
  /\ certificates' = Append(certificates, certificateRow(calls[p].data))
  /\ auditEvents' = auditEventsCreate(certificateGeneratedEvent(calls[p].data))
  /\ documents' = [documents EXCEPT ![documentIdOf(calls[p].data)] =
                     [@ EXCEPT !.certificate_path = pdfPathOf(calls[p].data)]]
  /\ Finish(p, [NoResult EXCEPT !.op = "createAndSaveCertificate",
                  !.doc = documentIdOf(calls[p].data), !.result = "ok",
                  !.id = certificateIdOf(calls[p].data),
                  !.hash = calls[p].data[<<"certificate", "hash">>]])
  /\ UNCHANGED outside
  /\ UNCHANGED <<now, signers, storage, nextUuid, ops>>

\* db.certificates.create rejected by the unique constraint: the call throws.
CertificatePersistRejected(p) ==
  /\ calls[p].op = "createAndSaveCertificate" /\ calls[p].pc = "persist"
  /\ ~certificates_unique_document(certificateRow(calls[p].data))
  /\ Finish(p, [NoResult EXCEPT !.op = "createAndSaveCertificate",
                  !.doc = documentIdOf(calls[p].data),
                  !.result = "duplicate key certificates_unique_document",
                  !.id = certificateIdOf(calls[p].data),
                  !.hash = calls[p].data[<<"certificate", "hash">>]])
  /\ UNCHANGED outside
  /\ UNCHANGED <<now, documents, signers, auditEvents, certificates, storage,
                 nextUuid, ops>>

\* The statements of createAndSaveCertificate with the certificate record
\* written before the PDF is rendered and saved.
createAndSaveStepsRecordFirst ==
  <<"gatherCertificateData", "db.certificates.create", "db.auditEvents.create",
    "generateCertificatePDF", "storage.save", "db.documents.update">>

\* The awaited statements of createAndSaveCertificate, in program order.
createAndSaveSteps ==
  <<"gatherCertificateData", "generateCertificatePDF", "storage.save",
    "db.certificates.create", "db.auditEvents.create", "db.documents.update">>

\* The statements that have run when `stage` throws: there is no try/catch,
\* so the statements after it are skipped and those before it stand.
stepsBefore(stage) ==
  LET k == CHOOSE i \in 1..Len(createAndSaveSteps) : createAndSaveSteps[i] = stage
  IN  {createAndSaveSteps[i] : i \in 1..(k - 1)}

\* The rendering backend or the storage may fail.
FailureStages == {"generateCertificatePDF", "storage.save"}

\* createAndSaveCertificate with generateCertificatePDF or storage.save
\* throwing: the error leaves the call.
CertificateFailed(p, stage) ==
  /\ calls[p].op = "createAndSaveCertificate" /\ calls[p].pc = "save"
  /\ LET data == calls[p].data
         done == stepsBefore(stage)
     IN  /\ storage' = IF "storage.save" \in done
                        THEN storage \cup {pdfPathOf(data)} ELSE storage
         /\ certificates' = IF "db.certificates.create" \in done
                             THEN Append(certificates, certificateRow(data))
                             ELSE certificates
         /\ auditEvents' = IF "db.auditEvents.create" \in done
                            THEN auditEventsCreate(certificateGeneratedEvent(data))
                            ELSE auditEvents
         /\ documents' = IF "db.documents.update" \in done
                          THEN [documents EXCEPT ![documentIdOf(data)] =
                                  [@ EXCEPT !.certificate_path = pdfPathOf(data)]]
                          ELSE documents
         /\ Finish(p, [NoResult EXCEPT !.op = "createAndSaveCertificate",
                         !.doc = documentIdOf(data),
                         !.result = IF stage = "storage.save"
                                    THEN "storage.save failed"
                                    ELSE "generateCertificatePDF failed",
                         !.id = certificateIdOf(data),
                         !.hash = data[<<"certificate", "hash">>]])
  /\ UNCHANGED outside
  /\ UNCHANGED <<now, signers, nextUuid, ops>>

\* ------------------------------------------------------ verifyCertificate
CertificateIds == {"1", "0"}

\* db.certificates.findById
certificatesFindById(certificateId) ==
  {i \in 1..Len(certificates) : certificates[i].id = certificateId}

\* delete dataForHashing.certificate.hash: the shallow copy shares the nested
\* certificate object, so the row held by the call loses the field.
withoutHashField(certificateData) ==
  [q \in DOMAIN certificateData \ {<<"certificate", "hash">>}
     |-> certificateData[q]]

\* The row as the call holds it after generateCertificateHash has run.
rowAfterHashing(row) ==
  [row EXCEPT !.certificate_data = withoutHashField(@)]

\* verifyCertificate: findById and the recalculation.
VerifyRead(p, certificateId) ==
  /\ CanCall /\ FreeSlot(p)
  /\ \E i \in certificatesFindById(certificateId) :
       calls' = [calls EXCEPT ![p] =
                   [IdleCall EXCEPT !.op = "verifyCertificate", !.pc = "update",
                      !.row = rowAfterHashing(certificates[i]),
                      !.data = generateCertificateHash(
                                 certificates[i].certificate_data)]]
  /\ ops' = ops + 1
  /\ UNCHANGED outside
  /\ UNCHANGED <<now, documents, signers, auditEvents, certificates, storage,
                 nextUuid, last>>

\* verifyCertificate: { valid: false, error: 'Certificate not found' }
VerifyNotFound(certificateId) ==
  /\ CanCall
  /\ certificatesFindById(certificateId) = {}
  /\ last' = [NoResult EXCEPT !.op = "verifyCertificate", !.id = certificateId,
                !.result = "Certificate not found"]
  /\ ops' = ops + 1
  /\ UNCHANGED outside
  /\ UNCHANGED <<now, documents, signers, auditEvents, certificates, storage,
                 nextUuid, calls>>

\* The verification the row was read by, written back in place of the row.
verifiedRowAliased(stored, read) ==
  [read EXCEPT !.verified_count = read.verified_count + 1,
               !.last_verified_at = now]

\* db.certificates.update(certificateId, {verified_count, last_verified_at})
verifiedRow(stored, read) ==
  [stored EXCEPT !.verified_count = read.verified_count + 1,
                 !.last_verified_at = now]

\* verifyCertificate: db.certificates.update and the return.
VerifyUpdate(p) ==
  /\ calls[p].op = "verifyCertificate" /\ calls[p].pc = "update"
  /\ certificates' =
       [i \in 1..Len(certificates) |->
          IF certificates[i].id = calls[p].row.id
          THEN verifiedRow(certificates[i], calls[p].row)
          ELSE certificates[i]]
  /\ Finish(p, [NoResult EXCEPT !.op = "verifyCertificate",
                  !.doc = calls[p].row.document_id, !.id = calls[p].row.id,
                  !.result = IF calls[p].data = calls[p].row.certificate_hash
                             THEN "valid" ELSE "invalid",
                  !.hash = calls[p].data])
  /\ UNCHANGED outside
  /\ UNCHANGED <<now, documents, signers, auditEvents, storage, nextUuid, ops>>

\* ------------------------------------------------------- the specification
\* A documents row after upload: original_hash is set, current_hash and
\* final_hash are null.
NewDocument == [status |-> "sent", certificate_path |-> <<>>,
                original_hash |-> <<"0R1G">>, current_hash |-> NoHash,
                final_hash |-> NoHash]

NewSigner == [status |-> "pending", consent_given |-> FALSE,
              consent_timestamp |-> NoTime, consent_ip_address |-> Null,
              signed_at |-> NoTime, decline_reason |-> Null]

NoTamper == [table |-> Null, doc |-> Null, index |-> 0, validBefore |-> FALSE,
             original |-> <<>>]

NoProbe == [applied |-> FALSE, previous |-> NoHash, a |-> NoEvent, b |-> NoEvent,
            inputA |-> <<>>, inputB |-> <<>>, hashA |-> NoHash, hashB |-> NoHash]

InitTables ==
  /\ now = 0
  /\ documents = [d \in Docs |-> NewDocument]
  /\ signers = [s \in Signers |-> NewSigner]
  /\ auditEvents = [d \in Docs |-> <<>>]
  /\ certificates = <<>>
  /\ storage = {}
  /\ nextUuid = 1
  /\ calls = [p \in Procs |-> IdleCall]
  /\ last = NoResult
  /\ ops = 0

Init ==
  /\ InitTables
  /\ tampered = NoTamper
  /\ probe = NoProbe

Next ==
  \/ Tick
  \/ \E p \in Procs, e \in EventInputs : CreateAuditEventCall(p, e)
  \/ \E p \in Procs, e \in EventInputs : CreateAuditEventInvalid(p, e)
  \/ \E p \in Procs : CreateAuditEventWrite(p)
  \/ \E s \in Signers \cup {MissingSigner}, r \in Requests, c \in ConsentInputs :
       RecordConsent(s, r, c)
  \/ \E s \in Signers \cup {MissingSigner}, r \in Requests, c \in ConsentInputs :
       RecordConsentRejected(s, r, c)
  \/ \E s \in Signers \cup {MissingSigner}, r \in Requests : WithdrawConsent(s, r)
  \/ \E s \in Signers \cup {MissingSigner}, r \in Requests : WithdrawConsentRejected(s, r)
  \/ \E s \in Signers, r \in Requests : Sign(s, r)
  \/ \E s \in Signers, r \in Requests : SignRejected(s, r)
  \/ \E p \in Procs, d \in Docs \cup {MissingDoc} : CertificateGather(p, d)
  \/ \E p \in Procs, d \in Docs \cup {MissingDoc} : CertificateGatherRejected(p, d)
  \/ \E p \in Procs : CertificateSave(p)
  \/ \E p \in Procs : CertificatePersist(p)
  \/ \E p \in Procs : CertificatePersistRejected(p)

Spec == Init /\ [][Next]_vars

\* The module's operations together with the reads of the audit trail.
NextLedger ==
  \/ Next
  \/ \E fn \in {"getAuditTrail", "verifyAuditTrailIntegrity",
              "exportAuditTrailCSV"}, d \in Docs : ReadTrail(fn, d)

SpecLedger == Init /\ [][NextLedger]_vars

\* ------------------------- createAndSaveCertificate with its failures
NextRender ==
  \/ Tick
  \/ \E s \in Signers, r \in Requests : Sign(s, r)
  \/ \E p \in Procs, d \in Docs \cup {MissingDoc} : CertificateGather(p, d)
  \/ \E p \in Procs, d \in Docs \cup {MissingDoc} : CertificateGatherRejected(p, d)
  \/ \E p \in Procs : CertificateSave(p)
  \/ \E p \in Procs, stage \in FailureStages : CertificateFailed(p, stage)
  \/ \E p \in Procs : CertificatePersist(p)
  \/ \E p \in Procs : CertificatePersistRejected(p)

SpecRender == Init /\ [][NextRender]_vars

\* ------------------------------------ the consent flow with its failures
\* consentData as any caller may send it: the checkboxes may carry values
\* that are truthy without being the boolean true.
LooseConsentInputs ==
  ConsentInputs
  \cup { [esign |-> "yes", requirements |-> "true", paperRights |-> "true"],
         [esign |-> "true", requirements |-> "1", paperRights |-> "true"] }

NextConsent ==
  \/ Tick
  \/ \E s \in Signers \cup {MissingSigner}, r \in Requests, c \in LooseConsentInputs :
       RecordConsent(s, r, c)
  \/ \E s \in Signers \cup {MissingSigner}, r \in Requests, c \in LooseConsentInputs :
       RecordConsentRejected(s, r, c)
  \/ \E s \in Signers, r \in Requests, c \in LooseConsentInputs :
       RecordConsentEventFailed(s, r, c)
  \/ \E s \in Signers \cup {MissingSigner}, r \in Requests : WithdrawConsent(s, r)
  \/ \E s \in Signers \cup {MissingSigner}, r \in Requests : WithdrawConsentRejected(s, r)
  \/ \E s \in Signers, r \in Requests : Sign(s, r)
  \/ \E s \in Signers, r \in Requests : SignRejected(s, r)

SpecConsent == Init /\ [][NextConsent]_vars

\* ------------------------------------------ the ledger edited in the store
\* The stored event_data of one row is changed behind the module's back
\* (signature_hash rewritten, or added when the row has none).
forgedEventData(eventData) ==
  (<<"signature_hash">> :> Quote("f0rged")) @@ eventData

Tamper(d, i) ==
  /\ CanCall
  /\ tampered = NoTamper
  /\ i \in 1..Len(auditEvents[d])
  /\ forgedEventData(auditEvents[d][i].event_data) # auditEvents[d][i].event_data
  /\ auditEvents' = [auditEvents EXCEPT ![d][i].event_data = forgedEventData(@)]
  /\ tampered' = [table |-> "audit_events", doc |-> d, index |-> i - 1,
                  validBefore |-> verifyAuditTrailIntegrity(d).valid,
                  original |-> auditEvents[d][i].event_data]
  /\ ops' = ops + 1
  /\ UNCHANGED <<now, documents, signers, certificates, storage, nextUuid,
                 calls, last, probe>>

NextTamper ==
  \/ Next
  \/ \E d \in Docs, i \in 1..MaxOps : Tamper(d, i)

SpecTamper == Init /\ [][NextTamper]_vars

\* --------------------------------------------- a certificate in the store
\* The tables after signer s1 has signed d1 and createAndSaveCertificate has
\* built the certificate of d1, all at time 0.
SignedSigner == [NewSigner EXCEPT !.status = "signed", !.signed_at = 0]

InitVerify ==
  /\ now = 0
  /\ signers = [s \in Signers |-> SignedSigner]
  /\ nextUuid = 2
  /\ LET data == certificateDataFrom("d1", "1", "completed", <<>>)
     IN  /\ certificates = <<certificateRow(data)>>
         /\ storage = {pdfPathOf(data)}
         /\ documents =
              [d \in Docs |->
                 IF d = "d1"
                 THEN [NewDocument EXCEPT !.status = "completed",
                                          !.certificate_path = pdfPathOf(data)]
                 ELSE NewDocument]
         /\ auditEvents =
              [d \in Docs |->
                 IF d = "d1" THEN <<certificateGeneratedEvent(data)>> ELSE <<>>]
         /\ last = [NoResult EXCEPT !.op = "createAndSaveCertificate",
                      !.doc = "d1", !.result = "ok", !.id = "1",
                      !.hash = data[<<"certificate", "hash">>]]
  /\ calls = [p \in Procs |-> IdleCall]
  /\ ops = 0
  /\ tampered = NoTamper
  /\ probe = NoProbe

\* The stored certificate_data of a row is changed behind the module's back:
\* the document's title, or the copy of the hash the snapshot carries.
CertificateEdits == {<<"document", "title">>, <<"certificate", "hash">>}

forgedCertificateData(certificateData, field) ==
  (field :> Quote("f0rged")) @@ certificateData

TamperCertificate(i, field) ==
  /\ CanCall
  /\ tampered = NoTamper
  /\ i \in 1..Len(certificates)
  /\ certificates' =
       [certificates EXCEPT ![i].certificate_data = forgedCertificateData(@, field)]
  /\ tampered' = [NoTamper EXCEPT !.table = "certificates",
                    !.doc = certificates[i].document_id, !.index = i,
                    !.original = certificates[i].certificate_data]
  /\ ops' = ops + 1
  /\ UNCHANGED <<now, documents, signers, auditEvents, storage, nextUuid,
                 calls, last, probe>>

NextVerify ==
  \/ Tick
  \/ \E p \in Procs, c \in CertificateIds : VerifyRead(p, c)
  \/ \E c \in CertificateIds : VerifyNotFound(c)
  \/ \E p \in Procs : VerifyUpdate(p)
  \/ \E i \in 1..MaxOps, f \in CertificateEdits : TamperCertificate(i, f)

SpecVerify == InitVerify /\ [][NextVerify]_vars

\* --------------------------------- verifications of one stored certificate
\* Requests to verify the stored certificate, which may be edited in the
\* store once: `ops` counts the verifyCertificate calls and the edit.
NextOverlap ==
  \/ Tick
  \/ \E p \in Procs : VerifyRead(p, "1")
  \/ \E p \in Procs : VerifyUpdate(p)
  \/ \E i \in 1..MaxOps, f \in CertificateEdits : TamperCertificate(i, f)

SpecOverlap == InitVerify /\ [][NextOverlap]_vars

\* ------------------------------- generateAuditEventHash as a pure function
ProbeBase ==
  [NoEvent EXCEPT
     !.document_id = "d1", !.signer_id = "s1",
     !.event_type = "signature.completed", !.event_timestamp = 0,
     !.actor_type = "signer", !.actor_id = "s1",
     !.actor_email = "alice@example.com", !.ip_address = "203.0.113.7",
     !.user_agent = "Mozilla/5.0", !.event_data = signatureData("sigA")]

\* The base event and, for each stored field, the event that differs from it
\* in that field alone.
ProbeEvents ==
  { ProbeBase,
    [ProbeBase EXCEPT !.event_type = "signature.declined"],
    [ProbeBase EXCEPT !.event_timestamp = 1],
    [ProbeBase EXCEPT !.actor_type = "user"],
    [ProbeBase EXCEPT !.actor_id = "u9"],
    [ProbeBase EXCEPT !.actor_email = "mallory@example.com"],
    [ProbeBase EXCEPT !.signer_id = "s9"],
    [ProbeBase EXCEPT !.ip_address = "198.51.100.9"],
    [ProbeBase EXCEPT !.user_agent = "curl/8.0"],
    [ProbeBase EXCEPT !.event_data = signatureData("sigB")] }

ProbePrevious == {NoHash, sha256(<<"earlier">>)}

InitHash ==
  /\ InitTables
  /\ tampered = NoTamper
  /\ \E a \in ProbeEvents, b \in ProbeEvents, h \in ProbePrevious :
       probe = [NoProbe EXCEPT !.a = a, !.b = b, !.previous = h]

HashProbe ==
  /\ ~probe.applied
  /\ LET previousEvent == [present |-> probe.previous # NoHash,
                           current_hash |-> probe.previous]
         ra == generateAuditEventHash(previousEvent, probe.a)
         rb == generateAuditEventHash(previousEvent, probe.b)
     IN  probe' = [probe EXCEPT
                     !.applied = TRUE,
                     !.inputA = AuditHashInput(ra.previous_hash, probe.a),
                     !.inputB = AuditHashInput(rb.previous_hash, probe.b),
                     !.hashA = ra.current_hash, !.hashB = rb.current_hash]
  /\ UNCHANGED <<now, documents, signers, auditEvents, certificates, storage,
                 nextUuid, calls, last, ops, tampered>>

SpecHash == InitHash /\ [][HashProbe]_vars

\* ----------------------------------- getRealClientIP as a pure function
\* Requests behind proxies: each source absent, or carrying a dotted quad,
\* an IPv6 text, an IPv4-mapped address, or something that is no address.
IPRequests ==
  { [NoRequest EXCEPT
       !.cf_connecting_ip = cf, !.true_client_ip = tci, !.x_real_ip = xri,
       !.x_forwarded_for = xff, !.x_amzn_trace_id = trace,
       !.connection_remoteAddress = conn, !.socket_remoteAddress = sock,
       !.info_remoteAddress = info, !.ip = ip] :
      cf \in {Null, "1:2:3", "256.1.1.1", "::ffff:203.0.113.7"},
      tci \in {Null, "2001:db8::1"},
      xri \in {Null, "198.51.100.9", "256.1.1.1"},
      xff \in {Null, "198.51.100.9, 203.0.113.7", "256.1.1.1, 203.0.113.7",
               " , 203.0.113.7"},
      trace \in {Null, "Root=1-67891233-abcdef123456789012345678"},
      conn \in {Null, "2001:db8::1"},
      sock \in {Null, "198.51.100.9"},
      info \in {Null, "203.0.113.7"},
      ip \in {Null, "203.0.113.7"} }

InitIP ==
  /\ InitTables
  /\ tampered = NoTamper
  /\ \E request \in IPRequests : 
       probe = [applied |-> FALSE, request |-> request, result |-> Null]

IPProbe ==
  /\ ~probe.applied
  /\ probe' = [probe EXCEPT !.applied = TRUE,
                             !.result = getRealClientIP(probe.request)]
  /\ UNCHANGED <<now, documents, signers, auditEvents, certificates, storage,
                 nextUuid, calls, last, ops, tampered>>

SpecIP == InitIP /\ [][IPProbe]_vars

\* --------------------------------- canonicalization as a pure function
\* Here an object keeps the insertion order of its properties: it is the
\* sequence of its properties, each a leaf (the token sequence of a scalar)
\* or an object.
Leaf(key, text) == [key |-> key, leaf |-> TRUE, text |-> text, members |-> <<>>]
Obj(key, members) == [key |-> key, leaf |-> FALSE, text |-> <<>>, members |-> members]

hasOwn(members, key) == \E i \in 1..Len(members) : members[i].key = key
property(members, key) ==
  members[CHOOSE i \in 1..Len(members) : members[i].key = key]

\* Object.keys(value) without the sort.
objectKeysUnsorted(members) == [i \in 1..Len(members) |-> members[i].key]

\* Object.keys(value).sort()
objectKeysSorted(members) ==
  SortKeys({members[i].key : i \in 1..Len(members)})

\* The replacer function of generateCertificateHash: every object is
\* replaced by a copy whose keys are inserted in sorted order, and
\* JSON.stringify goes on into the copy.
RECURSIVE sortedCopy(_)
sortedCopy(members) ==
  LET keys == objectKeysSorted(members)
  IN  [i \in 1..Len(keys) |->
         LET e == property(members, keys[i])
         IN  IF e.leaf THEN e ELSE Obj(e.key, sortedCopy(e.members))]

\* What JSON.stringify writes of an object under a replacer array: at every
\* depth the properties named in the array, in the array's order.
RECURSIVE listedCopy(_, _)
listedCopy(members, list) ==
  LET keys == SelectSeq(list, LAMBDA k : hasOwn(members, k))
  IN  [i \in 1..Len(keys) |->
         LET e == property(members, keys[i])
         IN  IF e.leaf THEN e ELSE Obj(e.key, listedCopy(e.members, list))]

\* JSON.stringify of an object, its properties in insertion order.
RECURSIVE render(_), renderMembers(_, _)
render(members) == <<"{">> \o renderMembers(members, 1) \o <<"}">>

renderMembers(members, i) ==
  IF i > Len(members) THEN <<>>
  ELSE (IF i = 1 THEN <<>> ELSE <<",">>)
       \o <<members[i].key, ":">>
       \o (IF members[i].leaf THEN members[i].text
           ELSE render(members[i].members))
       \o renderMembers(members, i + 1)

\* generateCertificateHash: dataForHashing, certificate.hash deleted.
withoutCertificateHash(certificateData) ==
  [i \in 1..Len(certificateData) |->
     IF certificateData[i].key = "certificate" /\ ~certificateData[i].leaf
     THEN Obj("certificate",
              SelectSeq(certificateData[i].members, LAMBDA e : e.key # "hash"))
     ELSE certificateData[i]]

\* The strings the three functions hand to sha256.
certificateHashInput(certificateData) ==
  render(sortedCopy(withoutCertificateHash(certificateData)))

hashChainInput(previousHash, payload) ==
  previousHash \o render(listedCopy(payload, objectKeysSorted(payload)))

orderedEventForHashing(previousHash, e, eventData) ==
  << Leaf("previous_hash", previousHash),
     Leaf("event_type", Quote(e.event_type)),
     Leaf("event_timestamp", Time(e.event_timestamp)),
     Leaf("document_id", Quote(e.document_id)),
     Leaf("actor_email", Scalar(e.actor_email)),
     Leaf("ip_address", Scalar(e.ip_address)),
     Obj("event_data", eventData) >>

auditEventHashInput(previousHash, e, eventData) ==
  LET o == orderedEventForHashing(previousHash, e, eventData)
  IN  render(listedCopy(o, objectKeysSorted(o)))

\* Every order in which the properties of a set can have been inserted.
Orderings(S) ==
  {f \in [1..Cardinality(S) -> S] :
     \A i, j \in 1..Cardinality(S) : f[i] = f[j] => i = j}

\* Signature payloads: a flat one, and two with a nested position that differ
\* in the page only, each in every insertion order at every depth.
Positions(page) == Orderings({Leaf("page", Num(page)), Leaf("x", Num(7))})

Payloads ==
  Orderings({Leaf("signer_id", Quote("s1")), Leaf("timestamp", Time(0))})
  \cup UNION {Orderings({Leaf("signer_id", Quote("s1")), Obj("position", pos)}) :
               pos \in Positions(1) \cup Positions(2)}

InitCanon ==
  /\ InitTables
  /\ tampered = NoTamper
  /\ \E a \in Payloads, b \in Payloads, h \in ProbePrevious :
       probe = [applied |-> FALSE, previous |-> h, a |-> a, b |-> b,
                certificateA |-> <<>>, certificateB |-> <<>>,
                chainA |-> <<>>, chainB |-> <<>>,
                eventA |-> <<>>, eventB |-> <<>>]

CanonProbe ==
  /\ ~probe.applied
  /\ LET previousHash ==
           PreviousHashOf([present |-> probe.previous # NoHash,
                           current_hash |-> probe.previous])
         documentHash ==
           IF probe.previous # NoHash THEN probe.previous
           ELSE NewDocument.original_hash
     IN  probe' = [probe EXCEPT
           !.applied = TRUE,
           !.certificateA = certificateHashInput(probe.a),
           !.certificateB = certificateHashInput(probe.b),
           !.chainA = hashChainInput(documentHash, probe.a),
           !.chainB = hashChainInput(documentHash, probe.b),
           !.eventA = auditEventHashInput(previousHash, ProbeBase, probe.a),
           !.eventB = auditEventHashInput(previousHash, ProbeBase, probe.b)]
  /\ UNCHANGED <<now, documents, signers, auditEvents, certificates, storage,
                 nextUuid, calls, last, ops, tampered>>

SpecCanon == InitCanon /\ [][CanonProbe]_vars

\* ================================================================= claims
Hashed(ledger) == \A i \in 1..Len(ledger) : ledger[i].current_hash # NoHash

ChainLinked(ledger) ==
  \A i \in 1..Len(ledger) :
    ledger[i].previous_hash =
      (IF i = 1 THEN GENESIS ELSE ledger[i - 1].current_hash)

InFlight == {p \in Procs : Busy(p)}

\* C1: createAuditEvent calls for one document that run concurrently leave a
\* single unbroken hash chain: in a ledger written by createAuditEvent alone,
\* the first entry's previous_hash is GENESIS, every later entry's
\* previous_hash is the current_hash of the entry before it, and so no two
\* entries share a previous_hash.
C1_ConcurrentAppendsFormOneChain ==
  \A d \in Docs :
    Hashed(auditEvents[d]) =>
      /\ ChainLinked(auditEvents[d])
      /\ \A i, j \in 1..Len(auditEvents[d]) :
           i # j => auditEvents[d][i].previous_hash # auditEvents[d][j].previous_hash

\* C2: replaying a document's ledger in getAuditTrail order and recomputing
\* each entry's hash from the stored fields gives the stored current_hash.
C2_RecomputedHashEqualsStored ==
  \A d \in Docs :
    LET events == getAuditTrail(d)
    IN  \A i \in 1..Len(events) :
          events[i].current_hash =
            generateAuditEventHash(
              IF i > 1
              THEN [present |-> TRUE, current_hash |-> events[i - 1].current_hash]
              ELSE [present |-> FALSE, current_hash |-> NoHash],
              events[i]).current_hash

\* C3: appends made one after another keep the chain linked: a step taken
\* while no other call is in flight, from a ledger whose first previous_hash
\* is GENESIS and whose every later previous_hash is the predecessor's
\* current_hash, leaves the ledger so linked.
C3_SequentialAppendsStayLinked ==
  [][\A d \in Docs :
       (Cardinality(InFlight) <= 1 /\ ChainLinked(auditEvents[d]))
         => ChainLinked(auditEvents'[d])]_vars

\* C4: once the stored event_data of entry i of an intact ledger has been
\* changed in the store, verifyAuditTrailIntegrity reports the ledger invalid
\* and the first broken index it reports is i.
C4_TamperedPayloadIsDetected ==
  (tampered.table = "audit_events" /\ tampered.validBefore) =>
    LET report == verifyAuditTrailIntegrity(tampered.doc)
    IN  /\ ~report.valid
        /\ report.errors[1] = tampered.index

\* C5: the hash covers every stored field: two events that differ in any
\* stored field, hashed after the same predecessor, have different hash
\* inputs and different hashes.
C5_HashCoversEveryStoredField ==
  (probe.applied /\ probe.a # probe.b) =>
    /\ probe.inputA # probe.inputB
    /\ probe.hashA # probe.hashB

consentGivenBefore(ledger, i) ==
  \E j \in 1..Len(ledger) :
    /\ j < i
    /\ ledger[j].event_type = "consent.given"
    /\ ledger[j].signer_id = ledger[i].signer_id

\* C6: a signature.completed event for a signer with no earlier consent.given
\* event on the same document is rejected and never appended: every
\* signature.completed entry of a ledger has a consent.given entry of the
\* same signer before it.
C6_SignatureEventRequiresConsent ==
  \A d \in Docs :
    \A i \in 1..Len(auditEvents[d]) :
      auditEvents[d][i].event_type = "signature.completed"
        => consentGivenBefore(auditEvents[d], i)

\* C7: a signer whose status is signed has given consent, and the consent
\* timestamp is strictly before the signature timestamp.
C7_SignedImpliesEarlierConsent ==
  \A s \in Signers :
    signers[s].status = "signed" =>
      /\ signers[s].consent_given = TRUE
      /\ signers[s].consent_timestamp # NoTime
      /\ signers[s].consent_timestamp < signers[s].signed_at

certificateRowsOf(d) ==
  {i \in 1..Len(certificates) : certificates[i].document_id = d}

\* C8: building the certificate of a completed document is idempotent: a
\* call that returns while the document has a certificate returns without
\* error, with that certificate's id and hash.
C8_CertificateBuildIsIdempotent ==
  (last.op = "createAndSaveCertificate" /\ last.doc \in Docs) =>
    \A i \in certificateRowsOf(last.doc) :
      /\ last.result = "ok"
      /\ last.id = certificates[i].id
      /\ last.hash = certificates[i].certificate_hash

\* C9: a document has at most one certificate row, however the calls of
\* createAndSaveCertificate for it interleave.
C9_AtMostOneCertificatePerDocument ==
  \A d \in Docs : Cardinality(certificateRowsOf(d)) <= 1

\* Two calls for one document overlapped and both saved a PDF: the call that
\* started second wrote the row, and the call that started first was then
\* turned away by the constraint.
C9_OvertakenCallTurnedAway ==
  /\ last.op = "createAndSaveCertificate"
  /\ last.result = "duplicate key certificates_unique_document"
  /\ last.id = "1"
  /\ \E i \in certificateRowsOf(last.doc) : certificates[i].id = "2"
  /\ Cardinality(certificateRowsOf(last.doc)) = 1
  /\ Cardinality({path \in storage : path[2] = last.doc}) = 2

NotCompleted(d) == d \notin Docs \/ documents[d].status # "completed"

certificateArtifacts(d) ==
  <<{path \in storage : path[2] = d},
    certificateRowsOf(d),
    IF d \in Docs
    THEN <<documents[d].certificate_path,
           SelectSeq(auditEvents[d],
                     LAMBDA e : e.event_type = "certificate.generated")>>
    ELSE <<>>>>

GatherErrors == {"Document not found", "Document not completed"}

\* C10: createAndSaveCertificate for a document that does not exist or is
\* not completed fails with an error and writes nothing: from a state where
\* the document is not completed, no step starts building its certificate,
\* saves a PDF, writes a certificate row, a certificate.generated event or a
\* certificate_path for it, and a call for it that returns in that step
\* returns an error.
C10_GatherRejectsUnfinishedDocument ==
  [][\A d \in Docs \cup {MissingDoc} :
       NotCompleted(d) =>
         /\ certificateArtifacts(d)' = certificateArtifacts(d)
         /\ \A p \in Procs :
              (calls'[p].op = "createAndSaveCertificate" /\ calls'[p] # calls[p])
                => documentIdOf(calls'[p].data) # d
         /\ (last' # last /\ last'.op = "createAndSaveCertificate" /\ last'.doc = d)
              => last'.result \in GatherErrors]_vars

\* A call for a document that is still out for signature threw, and nothing
\* was written.
C10_UnfinishedDocumentRejected ==
  /\ last.op = "createAndSaveCertificate"
  /\ last.doc \in Docs
  /\ last.result = "Document not completed"
  /\ storage = {} /\ certificates = <<>>
  /\ auditEvents[last.doc] = <<>>
  /\ documents[last.doc].certificate_path = <<>>

VerifyStarts(p) == calls[p].op = "idle" /\ calls'[p].op = "verifyCertificate"
VerifyReturns(p) == calls[p].op = "verifyCertificate" /\ calls'[p].op = "idle"

snapshotEdited(certificateId) ==
  /\ tampered.table = "certificates"
  /\ tampered.index \in certificatesFindById(certificateId)

\* C11: verifyCertificate finds the recalculated hash equal to the stored
\* certificate_hash, and so answers valid, exactly when the stored
\* certificate_data of the row it reads has not been modified.
C11_VerifyTellsEditedFromIntact ==
  [][\A p \in Procs :
       VerifyStarts(p) =>
         ((calls'[p].data = calls'[p].row.certificate_hash)
            <=> ~snapshotEdited(calls'[p].row.id))]_vars

\* C12: every verifyCertificate call on an existing certificate increases
\* that certificate's verified_count by exactly one.
C12_EachVerificationCountsOnce ==
  [][\A p \in Procs :
       VerifyReturns(p) =>
         \A i \in certificatesFindById(calls[p].row.id) :
           certificates'[i].verified_count = certificates[i].verified_count + 1]_vars

snapshotOf(row) ==
  [id |-> row.id, document_id |-> row.document_id,
   certificate_hash |-> row.certificate_hash,
   certificate_data |-> row.certificate_data, pdf_path |-> row.pdf_path]

\* C13: verifyCertificate changes nothing of a certificate except
\* verified_count and last_verified_at: over every step of a call the rows'
\* certificate_data, certificate.hash inside it, certificate_hash, id,
\* document_id and pdf_path stay as they were, also when the hashes differ.
C13_VerificationLeavesSnapshotAlone ==
  [][\A p \in Procs :
       (VerifyStarts(p) \/ VerifyReturns(p)) =>
         /\ Len(certificates') = Len(certificates)
         /\ \A i \in 1..Len(certificates) :
              snapshotOf(certificates'[i]) = snapshotOf(certificates[i])]_vars

\* A certificate whose title was edited in the store has been verified: the
\* answer was invalid, the count is 1, and the edited snapshot and the stored
\* hash are as they were before the call.
C13_EditedCertificateVerified ==
  /\ last.op = "verifyCertificate" /\ last.result = "invalid"
  /\ tampered.table = "certificates"
  /\ \E i \in certificatesFindById(last.id) :
       /\ certificates[i].verified_count = 1
       /\ certificates[i].certificate_hash # last.hash
       /\ certificates[i].certificate_data =
            forgedCertificateData(tampered.original, <<"document", "title">>)
       /\ <<"certificate", "hash">> \in DOMAIN certificates[i].certificate_data

InvalidTypeErrors == {"Invalid event type", "Invalid actor type"}

\* C14: the set of event kinds is closed: no step leaves an event whose
\* event_type is outside EVENT_TYPES in a ledger; no createAuditEvent call
\* gets past validation, to the read of the chain tail, with an event_type
\* outside EVENT_TYPES or an actor_type outside ACTOR_TYPES; and a call that
\* throws for its types leaves every ledger as it was.
C14_EventKindsAreClosed ==
  [][/\ \A d \in Docs : \A i \in 1..Len(auditEvents'[d]) :
          auditEvents'[d][i].event_type \in EVENT_TYPES
     /\ \A p \in Procs :
          calls'[p].op = "createAuditEvent" =>
            /\ calls'[p].ev.event_type \in EVENT_TYPES
            /\ calls'[p].ev.actor_type \in ACTOR_TYPES
     /\ (ops' # ops /\ last' # last /\ last'.op = "createAuditEvent"
           /\ last'.result \in InvalidTypeErrors)
          => auditEvents' = auditEvents /\ calls' = calls]_vars

\* createAuditEvent has thrown for an event type outside the set, and the
\* ledger of the document it named is still empty.
C14_UnknownKindRejected ==
  /\ last.op = "createAuditEvent"
  /\ last.result = "Invalid event type"
  /\ last.doc \in Docs
  /\ auditEvents[last.doc] = <<>>
  /\ \A p \in Procs : ~Busy(p)

signersOf(d) == {s \in Signers : SignerDoc(s) = d}

\* C15: a document.completed event is in a document's ledger only when all
\* of the document's signers have status signed, and at most once.
C15_CompletedOnceAllSigned ==
  \A d \in Docs :
    LET completions == {i \in 1..Len(auditEvents[d]) :
                          auditEvents[d][i].event_type = "document.completed"}
    IN  /\ completions # {} => \A s \in signersOf(d) : signers[s].status = "signed"
        /\ Cardinality(completions) <= 1

\* C16: getAuditTrail returns a document's events in the order in which
\* they were appended.
C16_TrailInAppendOrder ==
  \A d \in Docs : getAuditTrail(d) = auditEvents[d]

tailHashOf(ledger) ==
  IF Len(ledger) = 0 \/ ledger[Len(ledger)].current_hash = NoHash
  THEN GENESIS ELSE ledger[Len(ledger)].current_hash

CreateAuditEventSteps(p) ==
  /\ calls'[p] # calls[p]
  /\ "createAuditEvent" \in {calls[p].op, calls'[p].op}

documentOfCall(p) ==
  IF calls[p].op = "createAuditEvent"
  THEN calls[p].ev.document_id ELSE calls'[p].ev.document_id

\* C17: appends to different documents are independent: every step of a
\* createAuditEvent call for document A leaves the ledger of every other
\* document as it was, and the previous_hash the call computes is the
\* current_hash of the last event of A's ledger, or GENESIS.
C17_AppendsToOtherDocumentsIndependent ==
  [][\A p \in Procs :
       CreateAuditEventSteps(p) =>
         /\ \A b \in Docs \ {documentOfCall(p)} : auditEvents'[b] = auditEvents[b]
         /\ calls'[p].op = "createAuditEvent" =>
              calls'[p].ev.previous_hash =
                tailHashOf(auditEvents[calls'[p].ev.document_id])]_vars

\* A call for d1 started on d1's empty ledger while d2's ledger already held
\* a hashed event; it is still in flight.
C17_AppendsToTwoDocumentsInterleaved ==
  /\ \E p \in Procs :
       /\ calls[p].op = "createAuditEvent"
       /\ calls[p].ev.document_id = "d1"
       /\ calls[p].ev.previous_hash = GENESIS
  /\ Len(auditEvents["d2"]) > 0
  /\ auditEvents["d2"][1].current_hash # NoHash

flagRefused(consentData) ==
  \E k \in {"esign", "requirements", "paperRights"} :
    consentData[k] \in {"false", "undefined"}

\* C18: recordConsent with any of the three flags false or missing throws,
\* and the call updates no signer and writes no event.
C18_ConsentWithRefusedFlagRejected ==
  [][\A s \in Signers \cup {MissingSigner}, r \in Requests, c \in ConsentInputs :
       (flagRefused(c) /\ (RecordConsent(s, r, c) \/ RecordConsentRejected(s, r, c)))
         => /\ last'.op = "recordConsent"
            /\ last'.result = "Missing required consents"
            /\ signers' = signers
            /\ auditEvents' = auditEvents]_vars

\* recordConsent has thrown for a missing flag; the signer has no consent and
\* the ledger no event.
C18_RefusedConsentLeftNoTrace ==
  /\ last.op = "recordConsent"
  /\ last.result = "Missing required consents"
  /\ last.signer \in Signers
  /\ ~signers[last.signer].consent_given
  /\ signers[last.signer].consent_timestamp = NoTime
  /\ auditEvents[SignerDoc(last.signer)] = <<>>

\* C19: withdrawConsent appends exactly one consent.withdrawn event of the
\* signer to the ledger of the signer's document, leaves every earlier event
\* and every other ledger as they were, and sets the signer's status to
\* declined.
C19_WithdrawalAppendsAndDeclines ==
  [][\A s \in Signers, r \in Requests :
       WithdrawConsent(s, r) =>
         LET d == SignerDoc(s)
             n == Len(auditEvents[d])
         IN  /\ Len(auditEvents'[d]) = n + 1
             /\ SubSeq(auditEvents'[d], 1, n) = auditEvents[d]
             /\ auditEvents'[d][n + 1].event_type = "consent.withdrawn"
             /\ auditEvents'[d][n + 1].signer_id = s
             /\ \A b \in Docs \ {d} : auditEvents'[b] = auditEvents[b]
             /\ signers'[s].status = "declined"]_vars

\* A signer who had consented has withdrawn: the consent.given event is
\* still first in the ledger, the consent.withdrawn event follows it, and
\* the signer is declined.
C19_ConsentGivenThenWithdrawn ==
  /\ last.op = "withdrawConsent" /\ last.result = "ok"
  /\ Len(auditEvents[last.doc]) = 2
  /\ auditEvents[last.doc][1].event_type = "consent.given"
  /\ auditEvents[last.doc][1].signer_id = last.signer
  /\ auditEvents[last.doc][2].event_type = "consent.withdrawn"
  /\ signers[last.signer].status = "declined"

\* C20: signed is terminal: once a signer is signed, no step changes the
\* signer's status or signed_at.
C20_SignedIsTerminal ==
  [][\A s \in Signers :
       signers[s].status = "signed" =>
         /\ signers'[s].status = signers[s].status
         /\ signers'[s].signed_at = signers[s].signed_at]_vars

\* C21: the ledger is append-only: across every step of every operation
\* (appends, the reads of the trail, consent, signing, building a
\* certificate) the events a document's ledger held before the step are
\* still held after it, at the same positions and with the same fields.
C21_LedgerIsAppendOnly ==
  [][\A d \in Docs :
       /\ Len(auditEvents'[d]) >= Len(auditEvents[d])
       /\ SubSeq(auditEvents'[d], 1, Len(auditEvents[d])) = auditEvents[d]]_vars

\* The trail of a ledger whose rows are stored out of timestamp order has
\* been read and sorted, and found broken.
C21_UnsortedLedgerRead ==
  /\ last.op = "verifyAuditTrailIntegrity" /\ last.result = "invalid"
  /\ Len(auditEvents[last.doc]) = 2
  /\ getAuditTrail(last.doc) # auditEvents[last.doc]

RECURSIVE replayHashChain(_, _, _)
replayHashChain(hash, ledger, i) ==
  IF i > Len(ledger) THEN hash
  ELSE replayHashChain(
         IF ledger[i].event_type = "signature.completed"
         THEN generateHashChain(hash, ledger[i].event_data) ELSE hash,
         ledger, i + 1)

\* document.current_hash || document.original_hash
chainHashOf(document) ==
  IF document.current_hash # NoHash THEN document.current_hash
  ELSE document.original_hash

\* C25: a document's current_hash is the replay of generateHashChain from
\* original_hash over the signature.completed events accepted for it, and
\* final_hash is set only on a completed document, to the last current_hash.
C25_DocumentHashIsReplayOfSignatures ==
  \A d \in Docs :
    /\ chainHashOf(documents[d])
         = replayHashChain(documents[d].original_hash, auditEvents[d], 1)
    /\ documents[d].status = "completed"
         => documents[d].final_hash = chainHashOf(documents[d])
    /\ documents[d].status # "completed" => documents[d].final_hash = NoHash

\* C28: a signers row has consent_given = true only if the ledger of the
\* signer's document holds a consent.given event of that signer, also after
\* a recordConsent whose db.auditEvents.create failed once db.signers.update
\* had succeeded.
C28_ConsentFlagBackedByLedger ==
  \A s \in Signers :
    signers[s].consent_given =>
      \E i \in 1..Len(auditEvents[SignerDoc(s)]) :
        /\ auditEvents[SignerDoc(s)][i].event_type = "consent.given"
        /\ auditEvents[SignerDoc(s)][i].signer_id = s

\* C29: every consent.given event of the ledger records each of the three
\* acknowledgements as true, whatever consentData passed the validation.
C29_RecordedConsentsAllTrue ==
  \A d \in Docs : \A i \in 1..Len(auditEvents[d]) :
    auditEvents[d][i].event_type = "consent.given" =>
      \A k \in {"esign_disclosure", "hardware_software", "paper_copy_rights"} :
        auditEvents[d][i].event_data[<<"consents", k>>] = <<"true">>

\* C27: when k verifyCertificate calls on one existing certificate, which
\* may overlap, have all returned, the certificate's verified_count is its
\* value before the calls (zero) plus k.
verifyCalls == ops - (IF tampered = NoTamper THEN 0 ELSE 1)

C27_OverlappingVerificationsAllCounted ==
  (\A p \in Procs : ~Busy(p)) =>
    \A i \in certificatesFindById("1") :
      certificates[i].verified_count = verifyCalls

\* C24: when generateCertificatePDF or storage.save fails inside
\* createAndSaveCertificate, the certificates table, the ledger and the
\* documents table are as they were before the failing step (no record
\* created or altered, no certificate.generated event, a persisted
\* certificate untouched), the call has ended and the document is still
\* completed, so the call can be made again.
C24_RenderOrSaveFailureLeavesRecords ==
  [][\A p \in Procs, stage \in FailureStages :
       CertificateFailed(p, stage) =>
         /\ certificates' = certificates
         /\ auditEvents' = auditEvents
         /\ documents' = documents
         /\ calls'[p] = IdleCall
         /\ documents'[documentIdOf(calls[p].data)].status = "completed"]_vars

\* A call failed at rendering or saving, and the call made again has
\* persisted the document's one certificate.
C24_RetriedAfterFailure ==
  /\ last.op = "createAndSaveCertificate" /\ last.result = "ok"
  /\ last.id = "2"
  /\ \A p \in Procs : ~Busy(p)
  /\ Len(certificates) = 1 /\ certificates[1].id = "2"
  /\ storage = {certificates[1].pdf_path}

\* Two objects with the same keys and the same values at every depth.
RECURSIVE sameContent(_, _)
sameContent(a, b) ==
  /\ Len(a) = Len(b)
  /\ \A i \in 1..Len(a) :
       /\ hasOwn(b, a[i].key)
       /\ LET y == property(b, a[i].key)
          IN  /\ a[i].leaf = y.leaf
              /\ a[i].leaf => a[i].text = y.text
              /\ ~a[i].leaf => sameContent(a[i].members, y.members)

\* C22: canonicalization is order-independent and idempotent: two values
\* with the same keys and values at every depth, whatever the insertion
\* orders, give the same digest input in generateCertificateHash,
\* generateHashChain and generateAuditEventHash; and the canonical copy of a
\* canonical copy is that copy (under the sorting replacer and under the
\* sorted replacer array alike).
C22_CanonicalizationIgnoresInsertionOrder ==
  probe.applied =>
    /\ sameContent(probe.a, probe.b) =>
         /\ probe.certificateA = probe.certificateB
         /\ probe.chainA = probe.chainB
         /\ probe.eventA = probe.eventB
    /\ sortedCopy(sortedCopy(probe.a)) = sortedCopy(probe.a)
    /\ LET canonical == listedCopy(probe.a, objectKeysSorted(probe.a))
       IN  listedCopy(canonical, objectKeysSorted(canonical)) = canonical

\* Two payloads with the same content whose properties were inserted in
\* different orders, at the top and inside the nested position, have been
\* canonicalized.
C22_PermutedPayloadsHashed ==
  /\ probe.applied
  /\ sameContent(probe.a, probe.b)
  /\ probe.a[1].key # probe.b[1].key
  /\ \E i, j \in 1..2 :
       /\ ~probe.a[i].leaf /\ ~probe.b[j].leaf
       /\ probe.a[i].members # probe.b[j].members

\* C26: the serialization handed to SHA-256 by generateHashChain and
\* generateAuditEventHash is injective on the payload: two payloads (or
\* event_data objects) that differ in the value of a field at any depth
\* give different strings for the same previous hash.
C26_SerializationIsInjective ==
  (probe.applied /\ ~sameContent(probe.a, probe.b)) =>
    /\ probe.chainA # probe.chainB
    /\ probe.eventA # probe.eventB

\* The textual forms of addresses: a dotted quad of four decimal numbers up
\* to 255, and the IPv6 text of RFC 4291 (eight groups of one to four hex
\* digits, one run of groups may be written "::", and the last two groups
\* may be written as a dotted quad).
digitValue(c) == CHOOSE n \in 0..9 : ToString(n) = c

RECURSIVE decimalValue(_)
decimalValue(seg) ==
  IF seg = <<>> THEN 0
  ELSE 10 * decimalValue(SubSeq(seg, 1, Len(seg) - 1)) + digitValue(seg[Len(seg)])

dottedQuad(chars) ==
  LET parts == split(chars, ".")
  IN  /\ Len(parts) = 4
      /\ \A i \in 1..4 :
           /\ Len(parts[i]) \in 1..3
           /\ \A j \in 1..Len(parts[i]) : parts[i][j] \in Digits
           /\ decimalValue(parts[i]) <= 255

hexGroup(seg) ==
  Len(seg) \in 1..4 /\ \A j \in 1..Len(seg) : seg[j] \in HexDigits

ipv6Text(chars) ==
  LET parts == split(chars, ":")
      n == Len(parts)
      doubled == {i \in 1..(Len(chars) - 1) : chars[i] = ":" /\ chars[i + 1] = ":"}
      filled == {i \in 1..n : parts[i] # <<>>}
      quadLast == n \in filled /\ dottedQuad(parts[n])
      groups == Cardinality(filled) + (IF quadLast THEN 1 ELSE 0)
  IN  /\ n >= 3
      /\ \A i \in filled : hexGroup(parts[i]) \/ (i = n /\ quadLast)
      /\ \/ doubled = {} /\ filled = 1..n /\ groups = 8
         \/ /\ Cardinality(doubled) = 1
            /\ groups <= 7
            /\ chars[1] = ":" => chars[2] = ":"
            /\ chars[Len(chars)] = ":" => chars[Len(chars) - 1] = ":"

wellFormedIP(text) ==
  /\ text # Null /\ text # ""
  /\ dottedQuad(spell(text)) \/ ipv6Text(spell(text))

\* The candidates in the order of precedence.
candidates(request) ==
  << request.cf_connecting_ip, request.true_client_ip, request.x_real_ip,
     getFirstForwardedIP(request.x_forwarded_for),
     request.connection_remoteAddress, request.socket_remoteAddress,
     request.info_remoteAddress, request.ip >>

firstWellFormed(request) ==
  LET c == candidates(request)
      valid == {i \in 1..Len(c) : wellFormedIP(c[i])}
  IN  IF valid = {} THEN Null
      ELSE c[CHOOSE i \in valid : \A j \in valid : i <= j]

\* The answer is the candidate, or the dotted quad of an IPv4-mapped one.
sameAddress(result, candidate) ==
  /\ result # Null
  /\ \/ result = candidate
     \/ /\ spell(candidate) = MappedPrefix \o spell(result)
        /\ dottedQuad(spell(result))

\* C23: getRealClientIP returns the first well-formed candidate in the order
\* cf-connecting-ip, true-client-ip, x-real-ip, the leftmost entry of
\* x-forwarded-for, then the transport-level peer addresses; a malformed
\* candidate is skipped, later x-forwarded-for entries are never used, and
\* null is returned only when no candidate is well-formed.
C23_FirstWellFormedCandidateReturned ==
  probe.applied =>
    LET expected == firstWellFormed(probe.request)
    IN  IF expected = Null THEN probe.result = Null
        ELSE sameAddress(probe.result, expected)

====
